---- MODULE Spec2Model ----
(***************************************************************************)
(* Model of the filler-aware interruption filter                           *)
(*   src/filler_aware_adapter.py  (_FillerStream._run, _filter_event)      *)
(*   src/filler_manager.py        (FillerManager)                          *)
(*   src/config.py                (vocabulary and thresholds)              *)
(*                                                                         *)
(* Text is a sequence of one-character strings, a word is a sequence of    *)
(* word characters, confidences and thresholds are hundredths (0.35 = 35). *)
(***************************************************************************)
EXTENDS Integers, Sequences, FiniteSets, TLC

\* ------------------------------------------------------------------ bounds
MaxTextLen == 4
MaxEvents == 2
MaxItems == 2
MaxMtime == 2
MaxTime == 3
MaxEnvLen == 5

\* --------------------------------------------------------- program constants
\* os.getenv("MIN_CONFIDENCE_AGENT_SPEAKING", "0.35"), in hundredths
DefaultThreshold == 35
\* os.getenv("SHORT_SEGMENT_TOKENS", "5")
DefaultTokenLimit == 5

\* ---------------------------------------------------------------- alphabet
\* \w characters of the model's alphabet, and the others (_TOKEN_RE = r"\w+")
WordChars == {"u", "h", "s", "S"}
OtherChars == {" ", ","}
Chars == WordChars \cup OtherChars

\* str.lower() on one character
Lower(c) == IF c = "S" THEN "s" ELSE c

RECURSIVE SeqsUpTo(_, _)
SeqsUpTo(S, n) ==
    IF n = 0 THEN {<<>>}
    ELSE LET shorter == SeqsUpTo(S, n - 1)
         IN  shorter \cup {Append(t, c) : t \in shorter, c \in S}

\* ------------------------------------------------------------------ helpers
\* _TOKEN_RE.findall(text) with each match lowercased: cur is the match being
\* scanned, acc the matches found so far.
RECURSIVE ScanWords(_, _, _)
ScanWords(text, cur, acc) ==
    IF text = <<>>
    THEN IF cur = <<>> THEN acc ELSE Append(acc, cur)
    ELSE IF Head(text) \in WordChars
         THEN ScanWords(Tail(text), Append(cur, Lower(Head(text))), acc)
         ELSE ScanWords(Tail(text), <<>>,
                        IF cur = <<>> THEN acc ELSE Append(acc, cur))

_extract_words(text) == ScanWords(text, <<>>, <<>>)

\* " ".join(words)
RECURSIVE JoinWords(_)
JoinWords(words) ==
    IF words = <<>> THEN <<>>
    ELSE IF Len(words) = 1 THEN words[1]
    ELSE words[1] \o <<" ">> \o JoinWords(Tail(words))

\* Python's `cmd in text` on strings
RECURSIVE InText(_, _)
InText(cmd, text) ==
    IF Len(cmd) > Len(text) THEN FALSE
    ELSE IF SubSeq(text, 1, Len(cmd)) = cmd THEN TRUE
    ELSE InText(cmd, Tail(text))

\* `" " in cmd`
HasSpace(cmd) == \E i \in 1..Len(cmd) : cmd[i] = " "

\* faulty variant of _is_filler_only: looks the joined text up, not each word
_is_filler_only_WholeText(words, fillers) ==
    words # <<>> /\ JoinWords(words) \in fillers

\* bool(words) and all(w in IGNORED_FILLERS for w in words)
_is_filler_only(words, fillers) ==
    words # <<>> /\ \A i \in 1..Len(words) : words[i] \in fillers

\* faulty variant of _has_interrupt_command: the multi-word check is missing
_has_interrupt_command_SingleOnly(words, triggers) ==
    \E i \in 1..Len(words) : words[i] \in triggers

_has_interrupt_command(words, triggers) ==
    LET text == JoinWords(words)
    IN  IF \E cmd \in triggers : HasSpace(cmd) /\ InText(cmd, text)
        THEN TRUE
        ELSE \E i \in 1..Len(words) : words[i] \in triggers

\* ------------------------------------------------------------------- events
TranscriptTypes == {"INTERIM_TRANSCRIPT", "PREFLIGHT_TRANSCRIPT", "FINAL_TRANSCRIPT"}
EventTypes == TranscriptTypes \cup {"START_OF_SPEECH"}

\* alt.confidence: absent (None) or a value
NoConfidence == [reported |-> FALSE, value |-> 0]
Conf(v) == [reported |-> TRUE, value |-> v]

\* faulty variant of LowConfidence: <= in place of <
LowConfidence_Inclusive(c, threshold) ==
    c.reported /\ c.value # 0 /\ c.value <= threshold

\* `alt.confidence and alt.confidence < threshold`: None and 0.0 are falsy
LowConfidence(c, threshold) ==
    c.reported /\ c.value # 0 /\ c.value < threshold

Suppressed(event) == [event EXCEPT !.ignore_interruption = TRUE]

\* faulty variant of _filter_event: a suppressed event is returned as None
_filter_event_DropSuppressed(event, speaking, fillers, triggers, threshold, limit) ==
    IF event.type \notin TranscriptTypes THEN <<event>>
    ELSE IF event.alternatives = <<>> THEN <<event>>
    ELSE LET alt == event.alternatives[1]
             words == _extract_words(alt.text)
         IN  IF words = <<>> THEN <<event>>
             ELSE IF ~speaking THEN <<event>>
             ELSE IF _has_interrupt_command(words, triggers) THEN <<event>>
             ELSE IF _is_filler_only(words, fillers) THEN <<>>
             ELSE IF LowConfidence(alt.confidence, threshold) /\ Len(words) <= limit
                  THEN <<>>
             ELSE <<event>>

\* _filter_event returns the event or None: a sequence of one event or of none.
_filter_event(event, speaking, fillers, triggers, threshold, limit) ==
    IF event.type \notin TranscriptTypes THEN <<event>>
    ELSE IF event.alternatives = <<>> THEN <<event>>
    ELSE LET alt == event.alternatives[1]
             words == _extract_words(alt.text)
         IN  IF words = <<>> THEN <<event>>
             ELSE IF ~speaking THEN <<event>>
             ELSE IF _has_interrupt_command(words, triggers) THEN <<event>>
             ELSE IF _is_filler_only(words, fillers) THEN <<Suppressed(event)>>
             ELSE IF LowConfidence(alt.confidence, threshold) /\ Len(words) <= limit
                  THEN <<Suppressed(event)>>
             ELSE <<event>>

\* -------------------------------------------------------------------- state
VARIABLES
    \* src/config.py, fixed at import
    IGNORED_FILLERS,                      \* set of words
    INTERRUPTION_TRIGGERS,                \* set of words and phrases
    AGENT_SPEAKING_CONFIDENCE_THRESHOLD,  \* hundredths
    SHORT_SEGMENT_TOKEN_LIMIT,
    \* the caller's side of one _FillerStream
    input_ch,            \* self._input_ch: items pushed and not yet relayed
    input_closed,        \* the caller has signalled end-of-input
    pushed,              \* history: every item the caller pushed, in order
    \* the wrapped stream (self._base)
    base_calls,          \* history: push_frame / flush / end_input calls received
    base_out,            \* events produced and not yet consumed by _run
    base_state,          \* "open" | "ended" | "error": what its iterator does next
    base_closed,         \* aclose() has run (exit of `async with self._base`)
    produced,            \* history: every event the wrapped stream produced
    \* _run
    forward_task,        \* "running" | "done" | "failed" | "cancelled"
    run_pc,              \* "loop" | "finally" | "returned" | "raised"
    run_exc,             \* exception in flight or raised: "none" | "base_error" |
                         \* "forward_error" | "cancelled"
    event_ch,            \* self._event_ch: events sent downstream, in order
    log                  \* history: one record per _filter_event call

VARIABLES
    \* the vocabulary directory and one FillerManager
    fs,                  \* file name -> [present, mtime, body]
    _file_cache,         \* self._file_cache: path -> cached mtime
    fillers,             \* self.fillers
    commands,            \* self.commands
    last_loaded_time,    \* self.last_loaded_time
    \* history of the latest action on the directory or the manager
    last_op,             \* "fs" | "check" | "reload"
    prev_op,             \* last_op before the latest action
    raced,               \* a file vanished while the latest call was scanning
    last_result,         \* what _has_file_changes returned in the latest call
    files_read,          \* the files the latest call opened
    raised               \* the exception that left the latest call, or "none"

VARIABLES
    \* the directory itself and the life of the FillerManager object
    dir_present,         \* os.path.isdir(directory)
    manager,             \* "unconstructed" | "constructed" | "failed"
    \* a reload running in one thread while another thread queries
    reload_pc,           \* "idle" | "fillers_assigned" (between lines 108 and 109)
    new_commands,        \* the local new_commands of the reload in progress
    old_fillers,         \* history: self.fillers before line 108
    observed             \* history: the latest query and its two answers

manager_vars == <<dir_present, manager>>
reader_vars == <<reload_pc, new_commands, old_fillers, observed>>
watcher_vars == <<fs, _file_cache, fillers, commands, last_loaded_time,
                  last_op, prev_op, raced, last_result, files_read, raised,
                  manager_vars, reader_vars>>

VARIABLES
    \* the import of src/config.py
    env,                 \* os.environ: IGNORED_FILLERS and INTERRUPT_COMMANDS
    config_state         \* "importing" | "imported" | "raised"

config_vars == <<IGNORED_FILLERS, INTERRUPTION_TRIGGERS,
                 AGENT_SPEAKING_CONFIDENCE_THRESHOLD, SHORT_SEGMENT_TOKEN_LIMIT,
                 env, config_state>>
caller_vars == <<input_ch, input_closed, pushed>>
base_vars == <<base_calls, base_out, base_state, base_closed, produced>>
run_vars == <<forward_task, run_pc, run_exc, event_ch, log>>
stream_vars == <<caller_vars, base_vars, run_vars>>

\* ------------------------------------------------------------ configurations
W(a) == <<a>>
\* os.getenv(name): None when the variable is unset, else its characters
Unset == [set |-> FALSE, value |-> <<>>]
EnvValue(chars) == [set |-> TRUE, value |-> chars]
Environment(ignored_fillers, interrupt_commands) ==
    [IGNORED_FILLERS |-> ignored_fillers, INTERRUPT_COMMANDS |-> interrupt_commands]
\* DEFAULT_FILLERS_ENV / DEFAULT_INTERRUPTS_ENV in the model's alphabet: one
\* filler "u", the command "s" and the two-word command "h h".
DefaultVocabulary ==
    [fillers |-> {W("u")}, triggers |-> {W("s"), <<"h", " ", "h">>},
     env |-> Environment(Unset, Unset)]
\* An environment-supplied vocabulary whose command phrase "h u" is made of
\* the fillers "h" and "u" (config.py does not relate the two lists).
PhraseOfFillersVocabulary ==
    [fillers |-> {W("u"), W("h")}, triggers |-> {W("s"), <<"h", " ", "u">>},
     env |-> Environment(EnvValue(<<"u", ",", "h">>),
                         EnvValue(<<"s", ",", "h", " ", "u">>))]
Vocabularies == {DefaultVocabulary, PhraseOfFillersVocabulary}
\* config.py was imported under the environment of vocabulary v
ImportedWith(v) ==
    /\ env = v.env
    /\ config_state = "imported"
    /\ IGNORED_FILLERS = v.fillers
    /\ INTERRUPTION_TRIGGERS = v.triggers
Thresholds == {20, DefaultThreshold}
TokenLimits == {1, DefaultTokenLimit}
Confidences == {NoConfidence, Conf(0), Conf(20), Conf(35)}

Alternative(text, confidence) == [text |-> text, confidence |-> confidence]
SpeechEvent(type, alternatives) ==
    [type |-> type, alternatives |-> alternatives, ignore_interruption |-> FALSE]

\* ------------------------------------------------------------- FillerManager
\* The directory holds two .txt files, one of them named as a command file,
\* and one file whose extension is not the lowercase ".txt".
FileNames == {"uh.txt", "my_Commands.txt", "command.TXT"}

\* the characters of a file name
NameChars(fname) ==
    CASE fname = "uh.txt" -> <<"u", "h", ".", "t", "x", "t">>
      [] fname = "my_Commands.txt" ->
             <<"m", "y", "_", "C", "o", "m", "m", "a", "n", "d", "s", ".", "t", "x", "t">>
      [] fname = "command.TXT" ->
             <<"c", "o", "m", "m", "a", "n", "d", ".", "T", "X", "T">>

\* str.lower() on one character of a file name
LowerNameChar(c) ==
    CASE c = "C" -> "c"
      [] c = "T" -> "t"
      [] c = "X" -> "x"
      [] OTHER -> c

\* fname.endswith(".txt")
EndsWithTxt(fname) ==
    LET n == NameChars(fname)
    IN  Len(n) >= 4 /\ SubSeq(n, Len(n) - 3, Len(n)) = <<".", "t", "x", "t">>

\* faulty variant of NameHasCommand: the name is not lowercased
NameHasCommand_CaseSensitive(fname) ==
    InText(<<"c", "o", "m", "m", "a", "n", "d">>, NameChars(fname))

\* "command" in fname.lower()
NameHasCommand(fname) ==
    LET n == NameChars(fname)
    IN  InText(<<"c", "o", "m", "m", "a", "n", "d">>,
               [i \in 1..Len(n) |-> LowerNameChar(n[i])])

\* A line is a sequence of characters, a body a sequence of lines. A byte that
\* is not valid UTF-8 makes the read of its file raise UnicodeDecodeError.
InvalidByte == "\\xff"
Whitespace == {" "}

\* str.strip(): leading and trailing whitespace removed
RECURSIVE LStrip(_)
LStrip(line) ==
    IF line # <<>> /\ Head(line) \in Whitespace THEN LStrip(Tail(line)) ELSE line

RECURSIVE RStrip(_)
RStrip(line) ==
    IF line # <<>> /\ line[Len(line)] \in Whitespace
    THEN RStrip(SubSeq(line, 1, Len(line) - 1))
    ELSE line

Strip(line) == RStrip(LStrip(line))

\* line.strip().lower()
StripLower(line) == [i \in 1..Len(Strip(line)) |-> Lower(Strip(line)[i])]

\* the file "u"; the file " S ", "  ", "h"; a file that is not valid UTF-8
Bodies ==
    { << <<"u">> >>,
      << <<" ", "S", " ">>, <<" ", " ">>, <<"h">> >>,
      << <<"u", InvalidByte>> >> }

\* open(path, "r", encoding="utf-8") reads the whole file without an error
Decodes(body) ==
    \A i \in 1..Len(body) : \A j \in 1..Len(body[i]) : body[i][j] # InvalidByte

Absent == [present |-> FALSE, mtime |-> 0, body |-> <<>>]
File(mtime, body) == [present |-> TRUE, mtime |-> mtime, body |-> body]
EmptyDirectory == [f \in FileNames |-> Absent]

\* the .txt entries of os.listdir(self.directory)
ListedTxt(dir) == {f \in FileNames : dir[f].present /\ EndsWithTxt(f)}
Remove(dir, gone) == [f \in FileNames |-> IF f \in gone THEN Absent ELSE dir[f]]

\* the words of an open file: {line.strip().lower() for line in f if line.strip()}
WordsOf(body) ==
    {StripLower(body[i]) : i \in {j \in 1..Len(body) : Strip(body[j]) # <<>>}}

\* the exception raised inside the `try` of _load_words_from_file
ReadException(dir, path) ==
    IF dir[path].present /\ ~Decodes(dir[path].body)
    THEN "UnicodeDecodeError"
    ELSE "none"

\* faulty variant of CaughtByExcept: `except OSError`
CaughtByExcept_OSError(exc) == exc \in {"OSError", "FileNotFoundError"}

\* `except Exception` (line 43) catches every exception a read can raise
CaughtByExcept(exc) ==
    exc \in {"OSError", "FileNotFoundError", "UnicodeDecodeError"}

\* the exception that leaves _load_words_from_file, or "none"
LoadEscapes(dir, path) ==
    IF CaughtByExcept(ReadException(dir, path)) THEN "none"
    ELSE ReadException(dir, path)

\* _load_words_from_file(path): a missing file contributes nothing (line 34),
\* and so does a file whose read raises (line 45)
_load_words_from_file(dir, path) ==
    IF ~dir[path].present THEN {}
    ELSE IF ReadException(dir, path) # "none" THEN {}
    ELSE WordsOf(dir[path].body)

\* faulty variant of IsNewer: >= in place of >
IsNewer_OrEqual(cache, path, mtime) ==
    path \notin DOMAIN cache \/ mtime >= cache[path]

\* line 67: the scan records this file's mtime and reports a change
IsNewer(cache, path, mtime) ==
    path \notin DOMAIN cache \/ mtime > cache[path]

\* _has_file_changes: listed is the .txt listing, mtimes the modification
\* times read (of the listed files that did not vanish before getmtime).
\* Returns the return value and the cache the call leaves.
_has_file_changes(cache, listed, mtimes) ==
    LET updated == {p \in DOMAIN mtimes : IsNewer(cache, p, mtimes[p])}
        scanned == [p \in DOMAIN cache \cup updated |->
                       IF p \in updated THEN mtimes[p] ELSE cache[p]]
    IN  IF DOMAIN scanned # listed
        THEN [files_updated |-> TRUE,
              cache |-> [p \in DOMAIN scanned \cap listed |-> scanned[p]]]
        ELSE [files_updated |-> updated # {}, cache |-> scanned]

\* os.path.getmtime of the listed files still present
MtimesOf(dir, paths) == [p \in paths |-> dir[p].mtime]

\* whether reload_if_changed returns early (line 89)
SkipsReload(files_updated, loaded_time) == ~files_updated /\ loaded_time > 0

\* the accumulators of lines 93-106 over the listing, read from dir
NewFillers(dir, listed) ==
    UNION {_load_words_from_file(dir, f) : f \in {g \in listed : ~NameHasCommand(g)}}
NewCommands(dir, listed) ==
    UNION {_load_words_from_file(dir, f) : f \in {g \in listed : NameHasCommand(g)}}

\* ---- the directory's actions
TxtWrites == {File(m, b) : m \in 1..MaxMtime, b \in Bodies}
WritesTo(f) == IF EndsWithTxt(f) THEN TxtWrites ELSE {File(1, << <<"u">> >>)}

FsHistory ==
    /\ last_op' = "fs"
    /\ prev_op' = last_op
    /\ raced' = FALSE
    /\ last_result' = FALSE
    /\ files_read' = {}
    /\ raised' = "none"

\* a file is created, rewritten or touched; its mtime may be any time
WriteFile ==
    /\ dir_present
    /\ \E f \in FileNames : \E w \in WritesTo(f) :
          /\ fs[f] # w
          /\ fs' = [fs EXCEPT ![f] = w]
    /\ FsHistory
    /\ UNCHANGED <<_file_cache, fillers, commands, last_loaded_time>>

DeleteFile ==
    /\ \E f \in FileNames :
          /\ fs[f].present
          /\ fs' = [fs EXCEPT ![f] = Absent]
    /\ FsHistory
    /\ UNCHANGED <<_file_cache, fillers, commands, last_loaded_time>>

\* the latest modification time the directory or the manager has seen
RECURSIVE MaxOf(_)
MaxOf(S) ==
    IF S = {} THEN 0
    ELSE LET x == CHOOSE y \in S : TRUE
             m == MaxOf(S \ {x})
         IN  IF x > m THEN x ELSE m
Latest ==
    MaxOf({fs[f].mtime : f \in FileNames} \cup {_file_cache[p] : p \in DOMAIN _file_cache})

\* a file is created or rewritten at a time later than every time seen so far
WriteLater ==
    /\ dir_present
    /\ Latest < MaxMtime
    /\ \E f \in FileNames : \E b \in Bodies :
          /\ EndsWithTxt(f)
          /\ fs' = [fs EXCEPT ![f] = File(Latest + 1, b)]
    /\ FsHistory
    /\ UNCHANGED <<_file_cache, fillers, commands, last_loaded_time>>

\* ---- the manager's operations
\* _has_file_changes called on its own; the files of `vanished` are deleted
\* between os.listdir and their os.path.getmtime
HasFileChanges ==
    \E vanished \in SUBSET ListedTxt(fs) :
        LET listed == ListedTxt(fs)
            check == _has_file_changes(_file_cache, listed,
                                       MtimesOf(fs, listed \ vanished))
        IN  /\ dir_present
            /\ raised' = "none"
            /\ fs' = Remove(fs, vanished)
            /\ _file_cache' = check.cache
            /\ last_op' = "check"
            /\ prev_op' = last_op
            /\ raced' = (vanished # {})
            /\ last_result' = check.files_updated
            /\ files_read' = {}
            /\ UNCHANGED <<fillers, commands, last_loaded_time>>

\* the exceptions that leave the reads of the reload loop (lines 96-106)
Escaping(dir, listed) == {LoadEscapes(dir, f) : f \in listed} \ {"none"}

\* reload_if_changed: the change check, then either the early return or the
\* full reload; the files of `gone` are deleted between the reload's
\* os.listdir and their read. An exception that leaves a read leaves the
\* call before line 108. time.time() is one tick later at each reload.
ReloadIfChanged ==
    \E vanished \in SUBSET ListedTxt(fs) :
        LET listed == ListedTxt(fs)
            check == _has_file_changes(_file_cache, listed,
                                       MtimesOf(fs, listed \ vanished))
            dir == Remove(fs, vanished)
        IN  /\ dir_present
            /\ _file_cache' = check.cache
            /\ last_op' = "reload"
            /\ prev_op' = last_op
            /\ last_result' = check.files_updated
            /\ IF SkipsReload(check.files_updated, last_loaded_time)
               THEN /\ fs' = dir
                    /\ raced' = (vanished # {})
                    /\ files_read' = {}
                    /\ raised' = "none"
                    /\ UNCHANGED <<fillers, commands, last_loaded_time>>
               ELSE /\ last_loaded_time < MaxTime
                    /\ \E gone \in SUBSET ListedTxt(dir) :
                          /\ fs' = Remove(dir, gone)
                          /\ raced' = (vanished \cup gone # {})
                          /\ files_read' = ListedTxt(dir) \ gone
                          /\ IF Escaping(fs', ListedTxt(dir)) # {}
                             THEN /\ raised' \in Escaping(fs', ListedTxt(dir))
                                  /\ UNCHANGED <<fillers, commands, last_loaded_time>>
                             ELSE /\ raised' = "none"
                                  /\ fillers' = NewFillers(fs', ListedTxt(dir))
                                  /\ commands' = NewCommands(fs', ListedTxt(dir))
                                  /\ last_loaded_time' = last_loaded_time + 1

\* is_filler / is_command: word.lower().strip()
LowerStrip(word) == Strip([i \in 1..Len(word) |-> Lower(word[i])])
is_filler(word, known) == LowerStrip(word) \in known
is_command(word, known) == LowerStrip(word) \in known

\* a query: the word asked about and the answers of is_filler and is_command
Query(word, filler, command) ==
    [asked |-> TRUE, word |-> word, is_filler |-> filler, is_command |-> command]
NoQuery == [asked |-> FALSE, word |-> <<>>, is_filler |-> FALSE, is_command |-> FALSE]

\* ---- the directory itself
\* the directory is removed with everything in it
RemoveDirectory ==
    /\ dir_present
    /\ dir_present' = FALSE
    /\ fs' = EmptyDirectory
    /\ FsHistory
    /\ UNCHANGED <<_file_cache, fillers, commands, last_loaded_time, manager>>

\* the directory is created again, empty
CreateDirectory ==
    /\ ~dir_present
    /\ dir_present' = TRUE
    /\ FsHistory
    /\ UNCHANGED <<fs, _file_cache, fillers, commands, last_loaded_time, manager>>

\* FillerManager(directory): lines 16-20 have run; line 22 raises if the
\* directory is missing, else line 25 runs reload_if_changed
Construct ==
    /\ manager = "unconstructed"
    /\ IF ~dir_present
       THEN /\ manager' = "failed"
            /\ raised' = "FileNotFoundError"
            /\ last_op' = "construct"
            /\ prev_op' = last_op
            /\ UNCHANGED <<fs, _file_cache, fillers, commands, last_loaded_time,
                           raced, last_result, files_read, dir_present>>
       ELSE /\ ReloadIfChanged
            /\ manager' = IF raised' = "none" THEN "constructed" ELSE "failed"
            /\ UNCHANGED dir_present

\* _has_file_changes on a missing directory: os.listdir (line 55) raises
HasFileChangesRaises ==
    /\ manager = "constructed"
    /\ ~dir_present
    /\ raised' = "FileNotFoundError"
    /\ last_op' = "check"
    /\ prev_op' = last_op
    /\ last_result' = FALSE
    /\ raced' = FALSE
    /\ files_read' = {}
    /\ UNCHANGED <<fs, _file_cache, fillers, commands, last_loaded_time, manager_vars>>

\* reload_if_changed on a missing directory: the os.listdir of its change
\* check (line 55, called from line 89) raises
ReloadRaises ==
    /\ manager = "constructed"
    /\ ~dir_present
    /\ raised' = "FileNotFoundError"
    /\ last_op' = "reload"
    /\ prev_op' = last_op
    /\ last_result' = FALSE
    /\ raced' = FALSE
    /\ files_read' = {}
    /\ UNCHANGED <<fs, _file_cache, fillers, commands, last_loaded_time, manager_vars>>

\* ---- a reload in one thread, queries in another
\* reload_if_changed up to and including line 108 (self.fillers = new_fillers),
\* or the whole call when it returns early or a read raises
ReloadAssignFillers ==
    LET listed == ListedTxt(fs)
        check == _has_file_changes(_file_cache, listed, MtimesOf(fs, listed))
    IN  /\ dir_present
        /\ reload_pc = "idle"
        /\ _file_cache' = check.cache
        /\ last_op' = "reload"
        /\ prev_op' = last_op
        /\ last_result' = check.files_updated
        /\ raced' = FALSE
        /\ IF SkipsReload(check.files_updated, last_loaded_time)
           THEN /\ files_read' = {}
                /\ raised' = "none"
                /\ UNCHANGED <<fillers, reload_pc, new_commands, old_fillers>>
           ELSE /\ last_loaded_time < MaxTime
                /\ files_read' = listed
                /\ IF Escaping(fs, listed) # {}
                   THEN /\ raised' \in Escaping(fs, listed)
                        /\ UNCHANGED <<fillers, reload_pc, new_commands, old_fillers>>
                   ELSE /\ raised' = "none"
                        /\ fillers' = NewFillers(fs, listed)
                        /\ new_commands' = NewCommands(fs, listed)
                        /\ old_fillers' = fillers
                        /\ reload_pc' = "fillers_assigned"
        /\ UNCHANGED <<fs, commands, last_loaded_time, manager_vars, observed>>

\* lines 109-110: self.commands = new_commands, self.last_loaded_time = time.time()
ReloadAssignCommands ==
    /\ reload_pc = "fillers_assigned"
    /\ commands' = new_commands
    /\ last_loaded_time' = last_loaded_time + 1
    /\ reload_pc' = "idle"
    /\ UNCHANGED <<fs, _file_cache, fillers, last_op, prev_op, raced, last_result,
                   files_read, raised, manager_vars, new_commands, old_fillers,
                   observed>>

\* a reader thread asks is_filler(word) and is_command(word), one after the
\* other with no step of the reload between the two
QueryWords == {<<"u">>, <<" ", "S">>}

AskWord ==
    /\ manager = "constructed"
    /\ \E word \in QueryWords :
          observed' = Query(word, is_filler(word, fillers), is_command(word, commands))
    /\ last_op' = "query"
    /\ prev_op' = last_op
    /\ UNCHANGED <<fs, _file_cache, fillers, commands, last_loaded_time, raced,
                   last_result, files_read, raised, manager_vars, reload_pc,
                   new_commands, old_fillers>>

\* FillerManager(directory) on a directory that exists: the fields of
\* __init__, then the initial reload_if_changed()
Constructed(dir) ==
    LET check == _has_file_changes(<<>>, ListedTxt(dir), MtimesOf(dir, ListedTxt(dir)))
    IN  /\ fs = dir
        /\ _file_cache = check.cache
        /\ fillers = NewFillers(dir, ListedTxt(dir))
        /\ commands = NewCommands(dir, ListedTxt(dir))
        /\ last_loaded_time = 1
        /\ last_op = "reload"
        /\ prev_op = "fs"
        /\ raced = FALSE
        /\ last_result = check.files_updated
        /\ files_read = ListedTxt(dir)
        /\ raised = "none"
        /\ dir_present = TRUE
        /\ manager = "constructed"
        /\ reload_pc = "idle"
        /\ new_commands = {}
        /\ old_fillers = {}
        /\ observed = NoQuery

\* ------------------------------------------------------------------ config.py
\* An element of a parsed list: a string, or a JSON value that is not one.
Str(chars) == [kind |-> "str", chars |-> chars]
Num(chars) == [kind |-> "num", chars |-> chars]
Arr == [kind |-> "list", chars |-> <<>>]

\* the result of parsing one JSON value at the head of a text
ParseFail == [ok |-> FALSE, elem |-> Arr, items |-> <<>>, rest |-> <<>>]
Parsed(elem, items, rest) == [ok |-> TRUE, elem |-> elem, items |-> items, rest |-> rest]

Quote == "q"
Digits == {"1"}

\* a JSON string: the characters up to the next quote
RECURSIVE ParseString(_, _)
ParseString(text, acc) ==
    IF text = <<>> THEN ParseFail
    ELSE IF Head(text) = Quote THEN Parsed(Str(acc), <<>>, Tail(text))
    ELSE ParseString(Tail(text), Append(acc, Head(text)))

\* a JSON number: the longest run of digits
RECURSIVE ParseNumber(_, _)
ParseNumber(text, acc) ==
    IF text # <<>> /\ Head(text) \in Digits
    THEN ParseNumber(Tail(text), Append(acc, Head(text)))
    ELSE Parsed(Num(acc), <<>>, text)

\* a JSON value at the head of text (leading whitespace already skipped), and
\* the remaining elements of an array after its opening bracket
RECURSIVE ParseValue(_)
RECURSIVE ParseElements(_, _)
ParseValue(text) ==
    IF text = <<>> THEN ParseFail
    ELSE IF Head(text) = Quote THEN ParseString(Tail(text), <<>>)
    ELSE IF Head(text) \in Digits THEN ParseNumber(text, <<>>)
    ELSE IF Head(text) = "["
         THEN LET inner == LStrip(Tail(text))
              IN  IF inner # <<>> /\ Head(inner) = "]"
                  THEN Parsed(Arr, <<>>, Tail(inner))
                  ELSE ParseElements(inner, <<>>)
    ELSE ParseFail

ParseElements(text, acc) ==
    LET v == ParseValue(text)
        after == LStrip(v.rest)
    IN  IF ~v.ok \/ after = <<>> THEN ParseFail
        ELSE IF Head(after) = "]" THEN Parsed(Arr, Append(acc, v.elem), Tail(after))
        ELSE IF Head(after) = ","
             THEN ParseElements(LStrip(Tail(after)), Append(acc, v.elem))
        ELSE ParseFail

\* json.loads(text): the parsed value, or a JSONDecodeError
json_loads(text) ==
    LET v == ParseValue(LStrip(text))
    IN  IF v.ok /\ LStrip(v.rest) = <<>> THEN v ELSE ParseFail

\* env_val.split(",")
RECURSIVE SplitComma(_, _, _)
SplitComma(text, cur, acc) ==
    IF text = <<>> THEN Append(acc, cur)
    ELSE IF Head(text) = "," THEN SplitComma(Tail(text), <<>>, Append(acc, cur))
    ELSE SplitComma(Tail(text), Append(cur, Head(text)), acc)

\* _get_env_list(name, default), given os.getenv(name)
_get_env_list(env_val, default) ==
    IF ~env_val.set \/ env_val.value = <<>> THEN default
    ELSE IF LStrip(env_val.value) # <<>> /\ Head(LStrip(env_val.value)) = "["
         THEN IF json_loads(env_val.value).ok
              THEN json_loads(env_val.value).items
              ELSE default
    ELSE LET pieces == SplitComma(env_val.value, <<>>, <<>>)
         IN  [i \in 1..Len(pieces) |-> Str(Strip(pieces[i]))]

\* the built-in lists, in the model's alphabet
DEFAULT_FILLERS_ENV == <<Str(<<"u">>)>>
DEFAULT_INTERRUPTS_ENV == <<Str(<<"s">>), Str(<<"h", " ", "h">>)>>
\* no filler_words directory stands beside config.py
FILE_BASED_FILLERS == {}

\* {w.lower() for w in words}: raises AttributeError on an element that is
\* not a string
AllStrings(words) == \A i \in 1..Len(words) : words[i].kind = "str"
LowerAll(words) ==
    {[j \in 1..Len(words[i].chars) |-> Lower(words[i].chars[j])] : i \in 1..Len(words)}

\* the import of config.py, lines 82-96: an exception at line 83 or at line 95
\* leaves the import and the module's names stay undefined
ImportConfig ==
    LET filler_list == _get_env_list(env.IGNORED_FILLERS, DEFAULT_FILLERS_ENV)
        command_list == _get_env_list(env.INTERRUPT_COMMANDS, DEFAULT_INTERRUPTS_ENV)
    IN  /\ config_state = "importing"
        /\ IF ~AllStrings(filler_list)
           THEN /\ config_state' = "raised"
                /\ UNCHANGED <<IGNORED_FILLERS, INTERRUPTION_TRIGGERS>>
           ELSE /\ IGNORED_FILLERS' = LowerAll(filler_list) \cup FILE_BASED_FILLERS
                /\ IF ~AllStrings(command_list)
                   THEN /\ config_state' = "raised"
                        /\ UNCHANGED INTERRUPTION_TRIGGERS
                   ELSE /\ config_state' = "imported"
                        /\ INTERRUPTION_TRIGGERS' = LowerAll(command_list)
        /\ UNCHANGED <<env, AGENT_SPEAKING_CONFIDENCE_THRESHOLD,
                       SHORT_SEGMENT_TOKEN_LIMIT, stream_vars, watcher_vars>>

\* ------------------------------------------------------- the caller's actions
Frame(d) == [kind |-> "frame", data |-> d]
Flush == [kind |-> "flush", data |-> ""]
InputItems == {Frame("a"), Frame("b"), Flush}

\* push_frame / flush on the _FillerStream: the item is queued on _input_ch
PushInput ==
    /\ ~input_closed
    /\ Len(pushed) < MaxItems
    /\ \E item \in InputItems :
          /\ input_ch' = Append(input_ch, item)
          /\ pushed' = Append(pushed, item)
    /\ UNCHANGED <<config_vars, watcher_vars, input_closed, base_vars, run_vars>>

\* end_input on the _FillerStream: _input_ch is closed
EndInput ==
    /\ ~input_closed
    /\ input_closed' = TRUE
    /\ UNCHANGED <<config_vars, watcher_vars, input_ch, pushed, base_vars, run_vars>>

\* -------------------------------------------------- the wrapped stream's actions
StreamEvents ==
    { SpeechEvent("FINAL_TRANSCRIPT", <<Alternative(<<"u">>, NoConfidence)>>),
      SpeechEvent("INTERIM_TRANSCRIPT", <<Alternative(<<"u", " ", "s">>, Conf(20))>>),
      SpeechEvent("START_OF_SPEECH", <<>>) }

BaseEmit ==
    /\ base_state = "open"
    /\ ~base_closed
    /\ Len(produced) < MaxEvents
    /\ \E e \in StreamEvents :
          /\ base_out' = Append(base_out, e)
          /\ produced' = Append(produced, e)
    /\ UNCHANGED <<config_vars, watcher_vars, caller_vars, base_calls,
                   base_state, base_closed, run_vars>>

\* the wrapped stream's output ends: its iterator stops after the queued events
BaseEnd ==
    /\ base_state = "open"
    /\ base_state' = "ended"
    /\ UNCHANGED <<config_vars, watcher_vars, caller_vars, base_calls,
                   base_out, base_closed, produced, run_vars>>

\* the wrapped recogniser fails: its iterator raises after the queued events
BaseError ==
    /\ base_state = "open"
    /\ base_state' = "error"
    /\ UNCHANGED <<config_vars, watcher_vars, caller_vars, base_calls,
                   base_out, base_closed, produced, run_vars>>

\* ------------------------------------------------------------ _forward_input
PushCall(d) == [call |-> "push_frame", arg |-> d]
FlushCall == [call |-> "flush", arg |-> ""]
EndInputCall == [call |-> "end_input", arg |-> ""]

\* the body of the `async for` in _forward_input: the wrapped stream's call
\* made for one item
RelayCall(item) ==
    IF item.kind = "frame" THEN PushCall(item.data) ELSE FlushCall

\* faulty variant of InputExhausted: the loop is left as soon as the channel closes
InputExhausted_OnClose(ch, closed) == closed

\* whether _forward_input leaves its loop: the channel is closed and drained
InputExhausted(ch, closed) == closed /\ ch = <<>>

\* one iteration of `async for frame_or_flush in self._input_ch`
ForwardItem ==
    /\ forward_task = "running"
    /\ input_ch # <<>>
    /\ ~InputExhausted(input_ch, input_closed)
    /\ input_ch' = Tail(input_ch)
    /\ base_calls' = Append(base_calls, RelayCall(Head(input_ch)))
    /\ UNCHANGED <<config_vars, watcher_vars, input_closed, pushed, base_out,
                   base_state, base_closed, produced, run_vars>>

\* the same iteration when the wrapped stream's push_frame / flush raises:
\* the exception leaves _forward_input and is stored in the task
ForwardRaises ==
    /\ forward_task = "running"
    /\ input_ch # <<>>
    /\ ~InputExhausted(input_ch, input_closed)
    /\ input_ch' = Tail(input_ch)
    /\ forward_task' = "failed"
    /\ UNCHANGED <<config_vars, watcher_vars, input_closed, pushed, base_vars,
                   run_pc, run_exc, event_ch, log>>

\* the loop ends, self._base.end_input() is called and the task finishes
ForwardEnd ==
    /\ forward_task = "running"
    /\ InputExhausted(input_ch, input_closed)
    /\ base_calls' = Append(base_calls, EndInputCall)
    /\ forward_task' = "done"
    /\ UNCHANGED <<config_vars, watcher_vars, caller_vars, base_out, base_state,
                   base_closed, produced, run_pc, run_exc, event_ch, log>>

\* ---------------------------------------------------------------------- _run
LogEntry(event, speaking, result) ==
    [event |-> event, speaking |-> speaking, result |-> result]

\* one iteration of `async for event in self._base`: filter, then send_nowait
\* unless the filter returned None. is_agent_speaking is what the caller's
\* predicate self._is_agent_speaking() returns when the filter calls it.
ConsumeEvent ==
    /\ run_pc = "loop"
    /\ base_out # <<>>
    /\ \E is_agent_speaking \in BOOLEAN :
          LET event == Head(base_out)
              filtered_event ==
                  _filter_event(event, is_agent_speaking, IGNORED_FILLERS,
                                INTERRUPTION_TRIGGERS,
                                AGENT_SPEAKING_CONFIDENCE_THRESHOLD,
                                SHORT_SEGMENT_TOKEN_LIMIT)
          IN  /\ event_ch' = event_ch \o filtered_event
              /\ log' = Append(log, LogEntry(event, is_agent_speaking, filtered_event))
    /\ base_out' = Tail(base_out)
    /\ UNCHANGED <<config_vars, watcher_vars, caller_vars, base_calls,
                   base_state, base_closed, produced, forward_task, run_pc, run_exc>>

\* the wrapped stream's iterator stops: `async with` closes it, then `finally`
LoopEnds ==
    /\ run_pc = "loop"
    /\ base_out = <<>>
    /\ base_state = "ended"
    /\ base_closed' = TRUE
    /\ run_pc' = "finally"
    /\ UNCHANGED <<config_vars, watcher_vars, caller_vars, base_calls, base_out,
                   base_state, produced, forward_task, run_exc, event_ch, log>>

\* the wrapped stream's iterator raises: `async with` closes it, the exception
\* stays in flight through `finally`
LoopRaises ==
    /\ run_pc = "loop"
    /\ base_out = <<>>
    /\ base_state = "error"
    /\ base_closed' = TRUE
    /\ run_pc' = "finally"
    /\ run_exc' = "base_error"
    /\ UNCHANGED <<config_vars, watcher_vars, caller_vars, base_calls, base_out,
                   base_state, produced, forward_task, event_ch, log>>

\* what `await forward_task` does to _run once the task is finished: its
\* exception (or CancelledError) replaces the one in flight
AfterForward(task, exc) ==
    IF task = "failed" THEN "forward_error"
    ELSE IF task = "cancelled" THEN "cancelled"
    ELSE exc

\* faulty variant of AwaitForward: `finally` does not wait for forward_task
AwaitForward_NoWait ==
    /\ run_pc = "finally"
    /\ run_pc' = IF run_exc = "none" THEN "returned" ELSE "raised"
    /\ UNCHANGED <<config_vars, watcher_vars, caller_vars, base_vars,
                   forward_task, run_exc, event_ch, log>>

\* `finally: await forward_task` resumes: _run returns or raises
AwaitForward ==
    /\ run_pc = "finally"
    /\ forward_task # "running"
    /\ run_exc' = AfterForward(forward_task, run_exc)
    /\ run_pc' = IF run_exc' = "none" THEN "returned" ELSE "raised"
    /\ UNCHANGED <<config_vars, watcher_vars, caller_vars, base_vars,
                   forward_task, event_ch, log>>

\* the task running _run is cancelled while it waits for the next event:
\* CancelledError leaves the `async with` (closing the wrapped stream) and
\* reaches `finally`; forward_task is left as it is
CancelInLoop ==
    /\ run_pc = "loop"
    /\ base_closed' = TRUE
    /\ run_pc' = "finally"
    /\ run_exc' = "cancelled"
    /\ UNCHANGED <<config_vars, watcher_vars, caller_vars, base_calls, base_out,
                   base_state, produced, forward_task, event_ch, log>>

\* the task running _run is cancelled while it awaits forward_task: asyncio
\* cancels the awaited task, whose CancelledError leaves _forward_input
CancelInFinally ==
    /\ run_pc = "finally"
    /\ forward_task = "running"
    /\ forward_task' = "cancelled"
    /\ UNCHANGED <<config_vars, watcher_vars, caller_vars, base_vars,
                   run_pc, run_exc, event_ch, log>>

\* ------------------------------------------------------- stream specification
StreamInit ==
    /\ ImportedWith(DefaultVocabulary)
    /\ AGENT_SPEAKING_CONFIDENCE_THRESHOLD = DefaultThreshold
    /\ SHORT_SEGMENT_TOKEN_LIMIT = DefaultTokenLimit
    /\ input_ch = <<>>
    /\ input_closed = FALSE
    /\ pushed = <<>>
    /\ base_calls = <<>>
    /\ base_out = <<>>
    /\ base_state = "open"
    /\ base_closed = FALSE
    /\ produced = <<>>
    /\ forward_task = "running"
    /\ run_pc = "loop"
    /\ run_exc = "none"
    /\ event_ch = <<>>
    /\ log = <<>>
    /\ Constructed(EmptyDirectory)

vars == <<config_vars, stream_vars, watcher_vars>>

Init == StreamInit

Next ==
    \/ PushInput
    \/ EndInput
    \/ BaseEmit
    \/ BaseEnd
    \/ BaseError
    \/ ForwardItem
    \/ ForwardRaises
    \/ ForwardEnd
    \/ ConsumeEvent
    \/ LoopEnds
    \/ LoopRaises
    \/ AwaitForward
    \/ CancelInLoop
    \/ CancelInFinally

Spec == Init /\ [][Next]_vars

\* ------------------------------------------------------- filter specification
\* One event of the wrapped stream, drawn from every text of the alphabet up
\* to MaxTextLen, under every vocabulary, threshold and limit; the only step
\* is _run's loop body, which applies _filter_event to it.
Texts == SeqsUpTo(Chars, MaxTextLen)
SampleTexts == {<<>>, <<"u">>, <<"s">>, <<"h">>, <<"u", " ", "h">>}

FilterEvents ==
    { SpeechEvent("FINAL_TRANSCRIPT", <<Alternative(t, c)>>) :
          t \in Texts, c \in Confidences }
    \cup { SpeechEvent(ty, <<Alternative(t, Conf(20))>>) :
          ty \in EventTypes, t \in SampleTexts }
    \cup { SpeechEvent(ty, <<>>) : ty \in EventTypes }
    \cup { SpeechEvent("INTERIM_TRANSCRIPT",
                       <<Alternative(<<"h">>, Conf(35)), Alternative(t, Conf(20))>>) :
          t \in SampleTexts }

FilterInit ==
    /\ \E v \in Vocabularies : ImportedWith(v)
    /\ AGENT_SPEAKING_CONFIDENCE_THRESHOLD \in Thresholds
    /\ SHORT_SEGMENT_TOKEN_LIMIT \in TokenLimits
    /\ \E e \in FilterEvents :
          /\ base_out = <<e>>
          /\ produced = <<e>>
    /\ input_ch = <<>>
    /\ input_closed = FALSE
    /\ pushed = <<>>
    /\ base_calls = <<>>
    /\ base_state = "open"
    /\ base_closed = FALSE
    /\ forward_task = "running"
    /\ run_pc = "loop"
    /\ run_exc = "none"
    /\ event_ch = <<>>
    /\ log = <<>>
    /\ Constructed(EmptyDirectory)

FilterNext == ConsumeEvent

FilterSpec == FilterInit /\ [][FilterNext]_vars

\* ------------------------------------------------- vocabulary of the properties
IsTranscript(event) == event.type \in TranscriptTypes /\ event.alternatives # <<>>
TopText(event) == event.alternatives[1].text
TopConfidence(event) == event.alternatives[1].confidence
Tokens(event) == _extract_words(TopText(event))
LowerText(text) == [i \in 1..Len(text) |-> Lower(text[i])]
Occurs(phrase, text) ==
    \E i \in 1..Len(text) :
        i + Len(phrase) - 1 <= Len(text) /\ SubSeq(text, i, i + Len(phrase) - 1) = phrase

\* The text holds a configured command: one of its tokens is a command, or a
\* configured phrase occurs in the lowercased text or in its tokens joined by
\* single spaces.
ContainsCommand(event) ==
    \E cmd \in INTERRUPTION_TRIGGERS :
        \/ \E i \in 1..Len(Tokens(event)) : Tokens(event)[i] = cmd
        \/ HasSpace(cmd) /\ Occurs(cmd, JoinWords(Tokens(event)))
        \/ HasSpace(cmd) /\ Occurs(cmd, LowerText(TopText(event)))

AllFillers(event) ==
    /\ Tokens(event) # <<>>
    /\ \A i \in 1..Len(Tokens(event)) : Tokens(event)[i] \in IGNORED_FILLERS

\* the filter call of a log entry set the suppression flag
Flagged(entry) ==
    \E j \in 1..Len(entry.result) : entry.result[j].ignore_interruption

ConfidenceBelowThreshold(event) ==
    /\ TopConfidence(event).reported
    /\ TopConfidence(event).value < AGENT_SPEAKING_CONFIDENCE_THRESHOLD

WithinTokenLimit(event) == Len(Tokens(event)) <= SHORT_SEGMENT_TOKEN_LIMIT

\* ------------------------------------------------------------------------ C1
\* C1: every event consumed from the wrapped stream has exactly one output
\* event, at the same position of the output channel, equal to it in type and
\* alternatives (text and confidence); only the suppression flag may differ.
C1_EventPreservation ==
    /\ Len(log) = Len(produced) - Len(base_out)
    /\ Len(event_ch) = Len(log)
    /\ \A i \in 1..Len(event_ch) :
          [event_ch[i] EXCEPT !.ignore_interruption = FALSE] = produced[i]

C1_Witness ==
    /\ Len(event_ch) = 2
    /\ event_ch[1] # event_ch[2]
    /\ event_ch[1].ignore_interruption

\* ------------------------------------------------------------------------ C2
\* C2: a filter call on a transcript whose text holds a configured command
\* never sets the suppression flag, whatever the speaking state, confidence
\* and the other tokens.
C2_CommandOverride ==
    \A i \in 1..Len(log) :
        (IsTranscript(log[i].event) /\ ContainsCommand(log[i].event))
            => ~Flagged(log[i])

\* "u s" at low confidence while the agent speaks: a filler and a command
C2_Witness ==
    \E i \in 1..Len(log) :
        /\ log[i].speaking
        /\ IsTranscript(log[i].event)
        /\ Tokens(log[i].event) = <<W("u"), W("s")>>
        /\ ConfidenceBelowThreshold(log[i].event)
        /\ TopConfidence(log[i].event).value > 0
        /\ ~Flagged(log[i])

\* ------------------------------------------------------------------------ C3
\* C3 as stated: an all-filler transcript is flagged whenever the agent is
\* speaking, and nothing is flagged when it is not.
C3_FillerOnlySuppressed ==
    \A i \in 1..Len(log) :
        /\ (log[i].speaking /\ IsTranscript(log[i].event) /\ AllFillers(log[i].event))
               => Flagged(log[i])
        /\ ~log[i].speaking => ~Flagged(log[i])

\* C3 amended: an all-filler transcript that holds no configured command is
\* flagged whenever the agent is speaking, and nothing is flagged when it is
\* not.
C3_FillerOnlyNoCommandSuppressed ==
    \A i \in 1..Len(log) :
        /\ (/\ log[i].speaking
            /\ IsTranscript(log[i].event)
            /\ AllFillers(log[i].event)
            /\ ~ContainsCommand(log[i].event))
               => Flagged(log[i])
        /\ ~log[i].speaking => ~Flagged(log[i])

\* two filler tokens, no confidence reported, agent speaking: flagged
C3_Witness ==
    \E i \in 1..Len(log) :
        /\ log[i].speaking
        /\ IsTranscript(log[i].event)
        /\ AllFillers(log[i].event)
        /\ Len(Tokens(log[i].event)) = 2
        /\ ~TopConfidence(log[i].event).reported
        /\ Flagged(log[i])

\* ------------------------------------------------------------------------ C4
\* C4: while the agent speaks, a transcript with tokens and no command whose
\* reported confidence (0 included) is strictly below the threshold and whose
\* token count is at most the limit is flagged.
C4_LowConfidenceShortSuppressed ==
    \A i \in 1..Len(log) :
        (/\ log[i].speaking
         /\ IsTranscript(log[i].event)
         /\ Tokens(log[i].event) # <<>>
         /\ ~ContainsCommand(log[i].event)
         /\ ConfidenceBelowThreshold(log[i].event)
         /\ WithinTokenLimit(log[i].event))
            => Flagged(log[i])

\* ------------------------------------------------------------------------ C5
\* C5: the flag is set only if the agent is speaking, the text holds no
\* command, and either every token is a filler or the reported confidence is
\* strictly below the threshold with the token count at most the limit.
C5_SuppressedOnlyIf ==
    \A i \in 1..Len(log) :
        Flagged(log[i]) =>
            /\ log[i].speaking
            /\ IsTranscript(log[i].event)
            /\ ~ContainsCommand(log[i].event)
            /\ \/ AllFillers(log[i].event)
               \/ /\ ConfidenceBelowThreshold(log[i].event)
                  /\ WithinTokenLimit(log[i].event)

\* a non-filler transcript flagged by the confidence rule with its token count
\* exactly at the limit
C5_Witness ==
    \E i \in 1..Len(log) :
        /\ Flagged(log[i])
        /\ ~AllFillers(log[i].event)
        /\ Len(Tokens(log[i].event)) = SHORT_SEGMENT_TOKEN_LIMIT

\* --------------------------------------------------------- fair specification
\* asyncio's event loop runs every task that is ready: a step of
\* _forward_input or of _run that stays possible is eventually taken. The
\* caller, the wrapped stream and cancellation are under no obligation.
ForwardStep == ForwardItem \/ ForwardRaises \/ ForwardEnd
RunStep == ConsumeEvent \/ LoopEnds \/ LoopRaises \/ AwaitForward

\* The stream with errors but without cancellation.
NextNoCancel ==
    \/ PushInput
    \/ EndInput
    \/ BaseEmit
    \/ BaseEnd
    \/ BaseError
    \/ ForwardItem
    \/ ForwardRaises
    \/ ForwardEnd
    \/ ConsumeEvent
    \/ LoopEnds
    \/ LoopRaises
    \/ AwaitForward

FairSpec == Init /\ [][NextNoCancel]_vars /\ WF_vars(ForwardStep) /\ WF_vars(RunStep)

\* ------------------------------------------------------------------------ C6
\* C6: an error raised in the input-relay task, or by the wrapped stream in
\* the output loop, eventually brings _run to its terminal state raising that
\* error (in a stream that is never cancelled).
C6_ErrorPropagates ==
    /\ (forward_task = "failed") ~> (run_pc = "raised" /\ run_exc = "forward_error")
    /\ (run_exc = "base_error") ~> (run_pc = "raised" /\ run_exc = "base_error")

\* ------------------------------------------------------------------------ C7
\* the call on the wrapped stream that relays an item unchanged
ExpectedCall(item) ==
    [call |-> IF item.kind = "flush" THEN "flush" ELSE "push_frame", arg |-> item.data]
RelayedCalls == SelectSeq(base_calls, LAMBDA c : c.call # "end_input")

\* C7: the calls relayed to the wrapped stream are, in order, the items the
\* caller pushed (each frame as push_frame of that frame, each flush as
\* flush); no item is skipped; end_input is called at most once, last, after
\* the caller signalled end-of-input and every pushed item was relayed.
C7_InputRelay ==
    /\ Len(RelayedCalls) <= Len(pushed)
    /\ \A i \in 1..Len(RelayedCalls) : RelayedCalls[i] = ExpectedCall(pushed[i])
    /\ forward_task # "failed" => Len(RelayedCalls) + Len(input_ch) = Len(pushed)
    /\ \A i \in 1..Len(base_calls) :
          base_calls[i].call = "end_input" =>
              /\ i = Len(base_calls)
              /\ input_closed
              /\ Len(RelayedCalls) = Len(pushed)

C7_Witness ==
    /\ Len(base_calls) = 3
    /\ base_calls[1].call = "push_frame"
    /\ base_calls[2].call = "flush"
    /\ base_calls[3].call = "end_input"

\* ------------------------------------------------------------------------ C8
\* C8: once _run has been cancelled the input-relay task is cancelled too
\* (it is no longer running), and _run is terminal only with the relay task
\* terminal and the wrapped stream closed.
C8_CancelStopsBothTasks ==
    /\ run_exc = "cancelled" => forward_task # "running"
    /\ run_pc \in {"returned", "raised"} => (forward_task # "running" /\ base_closed)

\* ------------------------------------------------------ watcher specification
\* One FillerManager, constructed on an empty directory or on one that holds
\* a filler file, then any interleaving of directory changes, change checks
\* and reloads. No stream runs.
InitialDirectories ==
    {EmptyDirectory, [EmptyDirectory EXCEPT !["uh.txt"] = File(1, << <<"u">> >>)]}

WatcherInit ==
    /\ \E dir \in InitialDirectories : Constructed(dir)
    /\ ImportedWith(DefaultVocabulary)
    /\ AGENT_SPEAKING_CONFIDENCE_THRESHOLD = DefaultThreshold
    /\ SHORT_SEGMENT_TOKEN_LIMIT = DefaultTokenLimit
    /\ input_ch = <<>>
    /\ input_closed = FALSE
    /\ pushed = <<>>
    /\ base_calls = <<>>
    /\ base_out = <<>>
    /\ base_state = "open"
    /\ base_closed = FALSE
    /\ produced = <<>>
    /\ forward_task = "running"
    /\ run_pc = "loop"
    /\ run_exc = "none"
    /\ event_ch = <<>>
    /\ log = <<>>

WatcherNext ==
    \/ WriteFile /\ UNCHANGED <<config_vars, stream_vars, manager_vars, reader_vars>>
    \/ DeleteFile /\ UNCHANGED <<config_vars, stream_vars, manager_vars, reader_vars>>
    \/ HasFileChanges /\ UNCHANGED <<config_vars, stream_vars, manager_vars, reader_vars>>
    \/ ReloadIfChanged /\ UNCHANGED <<config_vars, stream_vars, manager_vars, reader_vars>>

WatcherSpec == WatcherInit /\ [][WatcherNext]_vars

\* ---------------------------------------------------- concurrent specification
\* One FillerManager shared by two threads: one runs reload_if_changed, whose
\* two assignments of lines 108 and 109 are separate steps, the other queries
\* is_filler / is_command; files are written at any time.
ConcurrentNext ==
    \/ WriteFile /\ UNCHANGED <<config_vars, stream_vars, manager_vars, reader_vars>>
    \/ ReloadAssignFillers /\ UNCHANGED <<config_vars, stream_vars>>
    \/ ReloadAssignCommands /\ UNCHANGED <<config_vars, stream_vars>>
    \/ AskWord /\ UNCHANGED <<config_vars, stream_vars>>

ConcurrentSpec == WatcherInit /\ [][ConcurrentNext]_vars

\* -------------------------------------------------------- import specification
\* The import of config.py under every value of IGNORED_FILLERS up to
\* MaxEnvLen characters (brackets, commas, quotes, a letter, a digit, a space)
\* and a few values of INTERRUPT_COMMANDS; nothing else runs.
EnvChars == {"[", "]", ",", Quote, "S", "1", " "}
FillerEnvValues == {Unset} \cup {EnvValue(t) : t \in SeqsUpTo(EnvChars, MaxEnvLen)}
CommandEnvValues ==
    {Unset, EnvValue(<<"S">>), EnvValue(<<"[", "1", "]">>), EnvValue(<<"[">>)}

ConfigInit ==
    /\ env \in {Environment(f, c) : f \in FillerEnvValues, c \in CommandEnvValues}
    /\ config_state = "importing"
    /\ IGNORED_FILLERS = {}
    /\ INTERRUPTION_TRIGGERS = {}
    /\ AGENT_SPEAKING_CONFIDENCE_THRESHOLD = DefaultThreshold
    /\ SHORT_SEGMENT_TOKEN_LIMIT = DefaultTokenLimit
    /\ input_ch = <<>>
    /\ input_closed = FALSE
    /\ pushed = <<>>
    /\ base_calls = <<>>
    /\ base_out = <<>>
    /\ base_state = "open"
    /\ base_closed = FALSE
    /\ produced = <<>>
    /\ forward_task = "running"
    /\ run_pc = "loop"
    /\ run_exc = "none"
    /\ event_ch = <<>>
    /\ log = <<>>
    /\ Constructed(EmptyDirectory)

ConfigNext == ImportConfig

ConfigSpec == ConfigInit /\ [][ConfigNext]_vars

\* ----------------------------------------------------- directory specification
\* The FillerManager from before its construction, on a directory that may be
\* missing, may be removed with its files and may be created again.
DirectoryInit ==
    /\ dir_present \in BOOLEAN
    /\ fs \in (IF dir_present THEN InitialDirectories ELSE {EmptyDirectory})
    /\ manager = "unconstructed"
    /\ _file_cache = <<>>
    /\ fillers = {}
    /\ commands = {}
    /\ last_loaded_time = 0
    /\ last_op = "fs"
    /\ prev_op = "fs"
    /\ raced = FALSE
    /\ last_result = FALSE
    /\ files_read = {}
    /\ raised = "none"
    /\ reload_pc = "idle"
    /\ new_commands = {}
    /\ old_fillers = {}
    /\ observed = NoQuery
    /\ ImportedWith(DefaultVocabulary)
    /\ AGENT_SPEAKING_CONFIDENCE_THRESHOLD = DefaultThreshold
    /\ SHORT_SEGMENT_TOKEN_LIMIT = DefaultTokenLimit
    /\ input_ch = <<>>
    /\ input_closed = FALSE
    /\ pushed = <<>>
    /\ base_calls = <<>>
    /\ base_out = <<>>
    /\ base_state = "open"
    /\ base_closed = FALSE
    /\ produced = <<>>
    /\ forward_task = "running"
    /\ run_pc = "loop"
    /\ run_exc = "none"
    /\ event_ch = <<>>
    /\ log = <<>>

DirectoryNext ==
    \/ WriteFile /\ UNCHANGED <<config_vars, stream_vars, manager_vars, reader_vars>>
    \/ RemoveDirectory /\ UNCHANGED <<config_vars, stream_vars, reader_vars>>
    \/ CreateDirectory /\ UNCHANGED <<config_vars, stream_vars, reader_vars>>
    \/ Construct /\ UNCHANGED <<config_vars, stream_vars, reader_vars>>
    \/ /\ manager = "constructed"
       /\ HasFileChanges
       /\ UNCHANGED <<config_vars, stream_vars, manager_vars, reader_vars>>
    \/ /\ manager = "constructed"
       /\ ReloadIfChanged
       /\ UNCHANGED <<config_vars, stream_vars, manager_vars, reader_vars>>
    \/ HasFileChangesRaises /\ UNCHANGED <<config_vars, stream_vars, reader_vars>>
    \/ ReloadRaises /\ UNCHANGED <<config_vars, stream_vars, reader_vars>>

DirectorySpec == DirectoryInit /\ [][DirectoryNext]_vars

\* ------------------------------------------------ monotonic-time specification
\* The watcher on a directory whose every write carries a later modification
\* time than any before it, so that no change is hidden from the mtime test.
FreshNext ==
    \/ WriteLater /\ UNCHANGED <<config_vars, stream_vars, manager_vars, reader_vars>>
    \/ DeleteFile /\ UNCHANGED <<config_vars, stream_vars, manager_vars, reader_vars>>
    \/ HasFileChanges /\ UNCHANGED <<config_vars, stream_vars, manager_vars, reader_vars>>
    \/ ReloadIfChanged /\ UNCHANGED <<config_vars, stream_vars, manager_vars, reader_vars>>

FreshSpec == WatcherInit /\ [][FreshNext]_vars

\* ------------------------------------------------------------------------ C9
WatcherState == <<fillers, commands, _file_cache, last_loaded_time>>

\* C9: a reload_if_changed call that directly follows another one, with no
\* change of the directory during or between the two, opens no file and
\* leaves fillers, commands, the mtime cache and last_loaded_time as they
\* were; and a call whose change check returned false leaves them as they
\* were.
C9_ReloadIdempotent ==
    [][ /\ (/\ last_op = "reload" /\ ~raced
            /\ last_op' = "reload" /\ ~raced')
               => (files_read' = {} /\ WatcherState' = WatcherState)
        /\ (last_op' \in {"check", "reload"} /\ ~last_result')
               => WatcherState' = WatcherState ]_vars

\* the second of two successive reloads of a directory holding both files:
\* nothing was read and the vocabulary of the first is still installed
C9_Witness ==
    /\ last_op = "reload" /\ prev_op = "reload"
    /\ ~raced
    /\ files_read = {}
    /\ fillers # {}
    /\ commands # {}
    /\ DOMAIN _file_cache = {"uh.txt", "my_Commands.txt"}

\* ----------------------------------------------------------------------- C10
\* relative to the cached records: a .txt file was added, a cached file was
\* removed, or a cached file's mtime differs from the cached one
Added == \E f \in ListedTxt(fs) : f \notin DOMAIN _file_cache
Removed == \E f \in DOMAIN _file_cache : f \notin ListedTxt(fs)
MtimeDiffers ==
    \E f \in ListedTxt(fs) \cap DOMAIN _file_cache : fs[f].mtime # _file_cache[f]

\* C10: a change check (alone or inside reload_if_changed, with no file
\* vanishing during the scan) returns true whenever a file was added or
\* removed or a cached file's mtime differs, larger or smaller.
C10_ChangeDetected ==
    [][ (/\ last_op' \in {"check", "reload"}
         /\ ~raced'
         /\ (Added \/ Removed \/ MtimeDiffers))
            => last_result' ]_vars

\* ------------------------------------------------ live-reload specification
\* One FillerManager watching its directory beside one stream that has one
\* transcript to filter: files are written, reload_if_changed installs new
\* sets, and _run's loop body filters the transcript at any moment.
VocabularyEvents ==
    { SpeechEvent("FINAL_TRANSCRIPT", <<Alternative(<<"h">>, NoConfidence)>>),
      SpeechEvent("FINAL_TRANSCRIPT", <<Alternative(<<"u">>, NoConfidence)>>) }

VocabularyInit ==
    /\ \E dir \in InitialDirectories : Constructed(dir)
    /\ ImportedWith(DefaultVocabulary)
    /\ AGENT_SPEAKING_CONFIDENCE_THRESHOLD = DefaultThreshold
    /\ SHORT_SEGMENT_TOKEN_LIMIT = DefaultTokenLimit
    /\ \E e \in VocabularyEvents :
          /\ base_out = <<e>>
          /\ produced = <<e>>
    /\ input_ch = <<>>
    /\ input_closed = FALSE
    /\ pushed = <<>>
    /\ base_calls = <<>>
    /\ base_state = "open"
    /\ base_closed = FALSE
    /\ forward_task = "running"
    /\ run_pc = "loop"
    /\ run_exc = "none"
    /\ event_ch = <<>>
    /\ log = <<>>

VocabularyNext ==
    \/ WriteFile /\ UNCHANGED <<config_vars, stream_vars, manager_vars, reader_vars>>
    \/ ReloadIfChanged /\ UNCHANGED <<config_vars, stream_vars, manager_vars, reader_vars>>
    \/ ConsumeEvent

VocabularySpec == VocabularyInit /\ [][VocabularyNext]_vars

\* ------------------------------------------------- normal-run specification
\* The stream when nothing fails and nothing is cancelled: the caller pushes
\* and may end the input, the wrapped stream emits and may end its output.
\* The event loop runs every task that is ready, as in FairSpec.
NormalNext ==
    \/ PushInput
    \/ EndInput
    \/ BaseEmit
    \/ BaseEnd
    \/ ForwardItem
    \/ ForwardEnd
    \/ ConsumeEvent
    \/ LoopEnds
    \/ AwaitForward

NormalSpec ==
    Init /\ [][NormalNext]_vars
         /\ WF_vars(ForwardItem \/ ForwardEnd)
         /\ WF_vars(ConsumeEvent \/ LoopEnds \/ AwaitForward)

\* ----------------------------------------------------------------------- C19
\* C19: once the caller has signalled end-of-input and the wrapped stream has
\* ended its output, _run eventually returns; and whenever _run has returned, the relay task is done with end_input as
\* its last call on the wrapped stream, every event the wrapped stream
\* produced has been consumed and forwarded, and the wrapped stream is closed.
C19_NormalTermination ==
    /\ (input_closed /\ base_state = "ended")
           ~> (run_pc = "returned")
    /\ [](run_pc = "returned" =>
              /\ forward_task = "done"
              /\ base_calls # <<>>
              /\ base_calls[Len(base_calls)] = EndInputCall
              /\ base_out = <<>>
              /\ Len(event_ch) = Len(produced)
              /\ base_closed)

\* _run has returned after relaying two items and forwarding two events
C19_Witness ==
    /\ run_pc = "returned"
    /\ Len(base_calls) = 3
    /\ Len(event_ch) = 2

\* ----------------------------------------------------------------------- C11
\* the pair (fillers, commands) before the reload in progress and the pair it
\* installs; both are the current pair when no reload is in progress
OldPair ==
    [fillers |-> IF reload_pc = "idle" THEN fillers ELSE old_fillers,
     commands |-> commands]
NewPair ==
    [fillers |-> fillers,
     commands |-> IF reload_pc = "idle" THEN commands ELSE new_commands]

\* the answers of a query are those of the pair
AnswersOf(query, pair) ==
    /\ query.is_filler = is_filler(query.word, pair.fillers)
    /\ query.is_command = is_command(query.word, pair.commands)

\* C11: the two answers a reader gets (is_filler, is_command of one word) are
\* those of the complete old pair or of the complete new pair of the reload
\* running concurrently, never those of new fillers with old commands.
C11_SwapAtomic ==
    [][ last_op' = "query"
            => (AnswersOf(observed', OldPair) \/ AnswersOf(observed', NewPair)) ]_vars

\* ------------------------------------------- vocabulary of the reload claims
\* What the files of the model hold, written out: the trimmed, lowercased,
\* non-blank lines of each body (a file that is not valid UTF-8 has none), the
\* .txt files named as command files and the other .txt files.
TrimmedLines(body) ==
    CASE body = << <<"u">> >> -> {<<"u">>}
      [] body = << <<" ", "S", " ">>, <<" ", " ">>, <<"h">> >> -> {<<"s">>, <<"h">>}
      [] OTHER -> {}
Unreadable(body) == body = << <<"u", InvalidByte>> >>
CommandTxtFiles == {"my_Commands.txt"}
OtherTxtFiles == {"uh.txt"}
DirectoryCommands ==
    UNION {TrimmedLines(fs[f].body) : f \in {g \in CommandTxtFiles : fs[g].present}}
DirectoryFillers ==
    UNION {TrimmedLines(fs[f].body) : f \in {g \in OtherTxtFiles : fs[g].present}}

\* the latest action was a reload_if_changed that went past line 89
ReloadRan == last_op = "reload" /\ last_result

\* ----------------------------------------------------------------------- C12
\* C12: a reload_if_changed that opened a file it could not decode leaves
\* fillers and commands exactly as they were: it installs no sets built from
\* the other files only.
C12_AllOrNothing ==
    [][ (/\ last_op' = "reload"
         /\ \E f \in files_read' : Unreadable(fs'[f].body))
            => (fillers' = fillers /\ commands' = commands) ]_vars

\* ----------------------------------------------------------------------- C13
\* C13: after a completed reload, commands is the union of the trimmed,
\* lowercased, non-blank lines of the .txt files whose name contains
\* "command" in any case, and fillers the union of those of the other .txt
\* files.
C13_Routing ==
    (ReloadRan /\ raised = "none")
        => (commands = DirectoryCommands /\ fillers = DirectoryFillers)

\* a reload of a directory holding all three files, the command file with
\* lines to trim, to lowercase and to drop
C13_Witness ==
    /\ ReloadRan
    /\ raised = "none"
    /\ \A f \in FileNames : fs[f].present
    /\ fillers = {<<"u">>}
    /\ commands = {<<"s">>, <<"h">>}

\* ----------------------------------------------------------------------- C14
\* C14: a reload in which files vanished or could not be decoded returns
\* without raising, and installs exactly the words of the files it opened and
\* could decode.
C14_SkipNeverAborts ==
    ReloadRan =>
        /\ raised = "none"
        /\ fillers \cup commands =
              UNION {TrimmedLines(fs[f].body) :
                         f \in {g \in files_read : ~Unreadable(fs[g].body)}}

\* a reload that opened a file it could not decode, and installed the words
\* of the other file
C14_Witness ==
    /\ ReloadRan
    /\ \E f \in files_read : Unreadable(fs[f].body)
    /\ fillers \cup commands # {}

\* ----------------------------------------------------------------------- C15
\* C15: the constructor raises the directory-not-found error exactly when the
\* directory is missing, and on a constructed manager no change check and no
\* reload_if_changed raises, whatever became of the directory.
C15_MissingDirectoryFatalOnlyAtConstruction ==
    [][ /\ (manager = "unconstructed" /\ manager' # "unconstructed")
               => /\ (manager' = "failed") = ~dir_present
                  /\ (manager' = "failed") = (raised' = "FileNotFoundError")
        /\ (manager = "constructed" /\ last_op' \in {"check", "reload"})
               => raised' = "none" ]_vars

\* ----------------------------------------------------------------------- C16
\* C16: fillers and commands are disjoint in every state of the watcher.
C16_Disjoint == fillers \cap commands = {}

\* ----------------------------------------------------------------------- C17
\* values that begin like a JSON list and are not well-formed JSON
MalformedValues ==
    { EnvValue(<<"[">>), EnvValue(<<"[", Quote, "S">>), EnvValue(<<"[", "S", "]">>),
      EnvValue(<<"[", "1", ",", "]">>), EnvValue(<<"[", "]", "]">>) }

\* C17: the import of config.py raises under no value of the two environment
\* variables, and a value that fails to parse yields the built-in default.
C17_EnvNeverRaises ==
    /\ config_state # "raised"
    /\ (config_state = "imported" /\ env.IGNORED_FILLERS \in MalformedValues)
           => IGNORED_FILLERS = DefaultVocabulary.fillers
    /\ (config_state = "imported" /\ env.INTERRUPT_COMMANDS \in MalformedValues)
           => INTERRUPTION_TRIGGERS = DefaultVocabulary.triggers

\* ----------------------------------------------------------------------- C18
\* C18: whenever reload_if_changed returns and no file changed during the
\* call, fillers and commands are the current contents of the directory,
\* whatever change checks ran before it.
C18_FreshAfterReload ==
    [][ (last_op' = "reload" /\ ~raced' /\ raised' = "none")
            => (fillers' = DirectoryFillers' /\ commands' = DirectoryCommands') ]_vars

\* ----------------------------------------------------------------------- C20
\* C20: a transcript filtered while the agent speaks is classified with the
\* sets the FillerManager holds at that moment: if all its tokens are in
\* fillers and none is in commands it is flagged, and if one of its tokens is
\* in commands it is not flagged.
C20_FilterUsesStore ==
    [][ Len(log') = Len(log) + 1 =>
          LET entry == log'[Len(log')]
              words == Tokens(entry.event)
              is_command_word(i) == words[i] \in commands
          IN  (entry.speaking /\ IsTranscript(entry.event) /\ words # <<>>) =>
                /\ (/\ \A i \in 1..Len(words) : words[i] \in fillers
                    /\ \A i \in 1..Len(words) : ~is_command_word(i))
                       => Flagged(entry)
                /\ (\E i \in 1..Len(words) : is_command_word(i))
                       => ~Flagged(entry) ]_vars

\* ----------------------------------------------------------------------- C21
\* C21: after every change check, run on its own or as the reload decision
\* of a reload_if_changed that returned early, the keys of the mtime cache
\* are exactly the .txt files present in the directory, also when a file
\* vanished between being listed and having its mtime read.
C21_CacheKeysArePresentFiles ==
    (\/ last_op = "check"
     \/ last_op = "reload" /\ ~last_result /\ raised = "none")
        => DOMAIN _file_cache = ListedTxt(fs)

====
